---- MODULE Spec2Model ----
(***************************************************************************)
(* Model of the news/posts publishing backend in its deployments:          *)
(*   "express"   - Express app over a JSON file and a local upload dir     *)
(*                 (src/unnamed/part_000, lines 1-172)                     *)
(*   "filecache" - serverless handler over runtimeNewsCache + data.json    *)
(*                 (src/unnamed/part_001)                                  *)
(*   "firestore" - serverless handler over a Firestore collection          *)
(*                 (src/api/index.js)                                      *)
(*   "blob"      - serverless upload handler in front of the blob store    *)
(*                 (src/api/index.js; the same code is in part_001)        *)
(* One behaviour runs one deployment (variable variant).  Time is counted  *)
(* in days.  Strings are sequences of one-character strings.               *)
(***************************************************************************)
EXTENDS Integers, Sequences, FiniteSets, TLC

VARIABLES
    variant,    \* which deployment this behaviour runs
    env,        \* process.env.JWT_SECRET, "" when it is not set
    now,        \* the wall clock (Date.now()), in days
    nextId,     \* number of ids handed out so far by makeId / nanoid
    cache,      \* runtimeNewsCache: NullCache (null) or an array of items
    file,       \* the item list held by DATA_PATH (data.json)
    uploads,    \* file names present in UPLOADS_DIR (express)
    blobs,      \* objects held by the blob store, in order of the put calls
    up,         \* the upload request in flight (busboy handler)
    last,       \* the request handled last and its response
    live,       \* history: items created (201) in this process and not deleted
    rt,         \* history: the create/delete round trip being observed
    merged,     \* result of the last getAllNews() call on drawn inputs
    issued,     \* history: tokens handed out by login
    authRes,    \* the last token verification and its outcome
    pending     \* creates accepted whose body is still being read (readBody, multer)

vars == <<variant, env, now, nextId, cache, file, uploads, blobs, up, last, live, rt,
          merged, issued, authRes, pending>>

(***************************************************************************)
(* Bounds of the model                                                     *)
(***************************************************************************)
MaxCacheLen == 1      \* longest drawn cache in SpecMerge
MaxFileLen == 2       \* longest drawn file list in SpecMerge
MaxItems == 2         \* ids handed out in one behaviour of Spec
MaxNow == 1           \* last day of the clock in Spec
MaxAuthNow == 8       \* last day of the clock in SpecAuth
MaxLogins == 2        \* tokens issued in one behaviour of SpecAuth
MaxFiles == 2         \* file parts of one upload request
MaxChunks == 1        \* data events of one file part
MaxBlobs == 1         \* objects the blob store comes to hold
MaxShortList == 20    \* longest of the short stores drawn in SpecList
MaxOver == 1          \* items beyond the list limit in the longest drawn store

Undefined == <<"undefined">>

Range(s) == {s[i] : i \in 1..Len(s)}

SeqsUpTo(S, n) == UNION {[1..k -> S] : k \in 0..n}

(***************************************************************************)
(* Items                                                                   *)
(*   id = 0 stands for a missing or empty id (falsy in `!n?.id`).          *)
(***************************************************************************)
NoId == 0

MkItem(id, text, imageUrl, createdAt) ==
    [id |-> id, text |-> text, imageUrl |-> imageUrl, createdAt |-> createdAt]

(***************************************************************************)
(* DurableStore, file backed                                               *)
(***************************************************************************)
\* readNewsFromFile(): the persisted list, [] when the read or the parse throws
ReadNewsFromFile(f, readOk) == IF readOk THEN f ELSE <<>>

\* writeNewsToFile(newsArray): the new file content; a throw is swallowed
WriteNewsToFile(f, newsArray, writeOk) == IF writeOk THEN newsArray ELSE f

(***************************************************************************)
(* MergeView: getAllNews()                                                 *)
(***************************************************************************)
\* Mutant: the walk keeps the last occurrence of an id instead of the first
RECURSIVE DedupLastWins(_)
DedupLastWins(s) ==
    IF s = <<>> THEN <<>>
    ELSE LET h == Head(s)
             t == Tail(s)
         IN  IF h.id = NoId \/ \E j \in 1..Len(t) : t[j].id = h.id
             THEN DedupLastWins(t)
             ELSE <<h>> \o DedupLastWins(t)

\* Mutant: the walk has no seen-set
DedupNone(s) == SelectSeq(s, LAMBDA n : n.id # NoId)

\* for (const n of [...]) { if (!n?.id || seen.has(n.id)) continue; ... }:
\* the positions whose element is pushed, those with an id that no earlier
\* element has
Kept(s) ==
    {i \in 1..Len(s) : s[i].id # NoId /\ \A j \in 1..(i - 1) : s[j].id # s[i].id}

\* merged after the walk: the kept elements in the order of the walk
Dedup(s) ==
    LET keep == Kept(s)
        pos == [i \in keep |-> 1 + Cardinality({j \in keep : j < i})]
    IN  [k \in 1..Cardinality(keep) |-> s[CHOOSE i \in keep : pos[i] = k]]

\* Mutant: ascending comparator
CompareAsc(a, b) == a.createdAt - b.createdAt

\* the comparator (a, b) => new Date(b.createdAt).getTime() - new Date(a.createdAt).getTime()
Compare(a, b) == b.createdAt - a.createdAt

\* Mutant: of two elements that compare equal the later one goes first
BeforeUnstable(s, j, i) ==
    \/ Compare(s[j], s[i]) < 0
    \/ Compare(s[j], s[i]) = 0 /\ j > i

\* Array.prototype.sort is stable: s[j] comes out ahead of s[i] when it
\* compares smaller, or compares equal and stood ahead of it
Before(s, j, i) ==
    \/ Compare(s[j], s[i]) < 0
    \/ Compare(s[j], s[i]) = 0 /\ j < i

\* the one element of a set; binding a value as the element of a set makes
\* it be computed once
The(S) == CHOOSE v \in S : TRUE

\* the place of every element of s in the sorted array
SortPos(s) ==
    [i \in 1..Len(s) |-> 1 + Cardinality({j \in 1..Len(s) : Before(s, j, i)})]

\* the sorted array of s, from the places of its elements
SortOf(s) ==
    The({[k \in 1..Len(s) |-> s[CHOOSE i \in 1..Len(s) : pos[i] = k]] :
            pos \in {SortPos(s)}})

\* merged.sort(comparator)
Sort(s) == The({SortOf(v) : v \in {s}})

\* let runtimeNewsCache = null;
NullCache == [isArray |-> FALSE, items |-> <<>>]

ArrayCache(items) == [isArray |-> TRUE, items |-> items]

\* Array.isArray(runtimeNewsCache) ? runtimeNewsCache : []
CacheNews(c) == IF c.isArray THEN c.items ELSE <<>>

GetAllNews(c, f, readOk) ==
    Sort(Dedup(CacheNews(c) \o ReadNewsFromFile(f, readOk)))

(***************************************************************************)
(* Values of variables that hold nothing yet                               *)
(***************************************************************************)
NoRequest == [op |-> "none", status |-> 0]
NoRoundTrip == [on |-> FALSE, done |-> FALSE]
NoMerge == [called |-> FALSE]
NoAuth == [called |-> FALSE]

(***************************************************************************)
(* Strings                                                                 *)
(***************************************************************************)
\* String(x || ""): undefined and "" both give ""
Str(x) == IF x = Undefined THEN <<>> ELSE x

RECURSIVE TrimStart(_)
TrimStart(s) ==
    IF s # <<>> /\ Head(s) = " " THEN TrimStart(Tail(s)) ELSE s

RECURSIVE TrimEnd(_)
TrimEnd(s) ==
    IF s # <<>> /\ s[Len(s)] = " " THEN TrimEnd(SubSeq(s, 1, Len(s) - 1)) ELSE s

\* Mutant: no trimming
TrimNot(s) == s

\* String.prototype.trim
Trim(s) == TrimEnd(TrimStart(s))

\* !x for a string or undefined
Falsy(x) == x = Undefined \/ x = <<>>

(***************************************************************************)
(* TokenAuthority: jwt.sign / jwt.verify with the shared secret            *)
(*   A token is its payload (sub, iat, exp), the key that signed it, and   *)
(*   whether payload and signature still are the ones that were signed.    *)
(***************************************************************************)
\* the value a configured deployment has in process.env.JWT_SECRET
EnvSecret == "s3cret"

\* the literal after || in the declaration of JWT_SECRET
DefaultSecret ==
    IF variant = "express" THEN "CHANGE_ME" ELSE "dev_secret_change_me"

\* const JWT_SECRET = process.env.JWT_SECRET || <default>
JWT_SECRET == IF env = "" THEN DefaultSecret ELSE env
ADMIN_USER == "admin"
ADMIN_PASSWORD == "password"

\* expiresIn: "7d"
TokenTTL == 7

\* jwt.sign({ sub: username, ... }, JWT_SECRET, { expiresIn: "7d" }) at time t
SignToken(username, t) ==
    [sub |-> username, iat |-> t, exp |-> t + TokenTTL, key |-> JWT_SECRET,
     intact |-> TRUE]

\* Mutant: the expiry is not looked at
JwtVerifyNoExpiry(tok, t) == tok.key = JWT_SECRET /\ tok.intact

\* Mutant: a token is still taken on the day it expires
JwtVerifyLate(tok, t) == tok.key = JWT_SECRET /\ tok.intact /\ t <= tok.exp

\* jwt.verify(token, JWT_SECRET) at time t does not throw
JwtVerify(tok, t) == tok.key = JWT_SECRET /\ tok.intact /\ t < tok.exp

NoAuthHeader == [kind |-> "none"]
Bearer(tok) == [kind |-> "bearer", tok |-> tok]

\* Mutant: any bearer header passes
VerifyJWTAny(auth, t) == auth.kind = "bearer"

\* verifyJWT(req).ok
VerifyJWT(auth, t) == auth.kind = "bearer" /\ JwtVerify(auth.tok, t)

\* Mutant: a request without a token is let through
AuthRequiredOpen(auth, t) == auth.kind = "bearer" => JwtVerify(auth.tok, t)

\* authRequired calls next()
AuthRequired(auth, t) == auth.kind = "bearer" /\ JwtVerify(auth.tok, t)

\* a token signed with another secret, and an issued token whose signature
\* or payload was altered afterwards
ForgedToken(t) ==
    [sub |-> ADMIN_USER, iat |-> t, exp |-> t + TokenTTL, key |-> "other", intact |-> TRUE]

\* a token anyone can make who has read the source: signed with the default
DefaultSigned(t) ==
    [sub |-> ADMIN_USER, iat |-> t, exp |-> t + TokenTTL, key |-> DefaultSecret,
     intact |-> TRUE]

Tampered(tok) == [tok EXCEPT !.intact = FALSE, !.exp = tok.exp + TokenTTL]

(***************************************************************************)
(* Requests of the item routes                                             *)
(***************************************************************************)
\* Authorization headers presented at time t: none, a token login issued
\* today, one issued seven days ago, and one signed with another secret
AuthInputs(t) ==
    {NoAuthHeader,
     Bearer(SignToken(ADMIN_USER, t)),
     Bearer(SignToken(ADMIN_USER, t - TokenTTL)),
     Bearer(ForgedToken(t))}

BadJson == <<"{">>
TextInputs == {Undefined, <<" ">>, <<"a">>, <<" ", "a">>}
BodyInputs == {BadJson} \cup TextInputs

ListView ==
    IF variant = "express" THEN Sort(file) ELSE GetAllNews(cache, file, TRUE)

\* history: an item with this id is listed before the request is handled
Exists(id) == \E n \in Range(ListView) : n.id = id

Without(s, id) == SelectSeq(s, LAMBDA n : n.id # id)

Reply(op, auth, status) == [op |-> op, auth |-> auth, status |-> status]

(***************************************************************************)
(* "filecache": the handler of src/unnamed/part_001                        *)
(***************************************************************************)
\* Mutant: the item reaches the cache only when the file was written
UnshiftIfWritten(c, item, writeOk) ==
    IF writeOk THEN ArrayCache(<<item>> \o CacheNews(c)) ELSE c

\* if (!Array.isArray(runtimeNewsCache)) runtimeNewsCache = [];
\* runtimeNewsCache.unshift(item): done before the write is tried, whose
\* outcome it does not see
Unshift(c, item, writeOk) == ArrayCache(<<item>> \o CacheNews(c))

\* GET /health
Health ==
    /\ last' = Reply("health", NoAuthHeader, 200)
    /\ UNCHANGED <<pending, variant, env, now, nextId, cache, file, uploads, blobs, up, live, rt,
                   merged, issued, authRes>>

\* GET /news
FcList ==
    /\ variant = "filecache"
    /\ \E readOk \in BOOLEAN :
          last' = [op |-> "list", auth |-> NoAuthHeader, status |-> 200,
                   read |-> readOk, news |-> GetAllNews(cache, file, readOk)]
    /\ UNCHANGED <<pending, variant, env, now, nextId, cache, file, uploads, blobs, up, live, rt,
                   merged, issued, authRes>>

\* Mutant: the route works on the file as it was when the request arrived
StoreSeenOnArrival(r) == r.fileAt

\* What readNewsFromFile() / readDB() finds for request r: the calls sit in the
\* synchronous part of the route, after the body was read, so it is the file
\* as it is when that part runs.
StoreSeen(r) == file

\* a request whose body is there at once
Arriving == [fileAt |-> file]

\* the route of POST /news for request r with the given header and body
FcCreateOn(auth, body, r) ==
    LET text == Trim(Str(body))
        item == MkItem(nextId + 1, text, <<>>, now)
    IN  IF ~VerifyJWT(auth, now)
        THEN /\ last' = Reply("create", auth, 401)
             /\ UNCHANGED <<nextId, cache, file, live, rt>>
        ELSE IF body = BadJson \/ text = <<>>
        THEN /\ last' = Reply("create", auth, 400) @@ [body |-> body]
             /\ UNCHANGED <<nextId, cache, file, live, rt>>
        ELSE /\ nextId < MaxItems
             /\ nextId' = nextId + 1
             /\ \E readOk \in BOOLEAN, writeOk \in BOOLEAN :
                   /\ cache' = Unshift(cache, item, writeOk)
                   /\ file' = WriteNewsToFile(
                                 file, <<item>> \o ReadNewsFromFile(StoreSeen(r), readOk),
                                 writeOk)
                   /\ last' = Reply("create", auth, 201) @@
                               [body |-> body, read |-> readOk, wrote |-> writeOk,
                                fileAt |-> r.fileAt,
                                res |-> [ok |-> TRUE, item |-> item]]
             /\ live' = live \cup {item}
             /\ rt' = [on |-> TRUE, done |-> FALSE, id |-> item.id,
                       before |-> ListView, cacheBefore |-> CacheNews(cache),
                       fileBefore |-> file]

\* POST /news
FcCreate ==
    /\ variant = "filecache"
    /\ \E auth \in AuthInputs(now), body \in BodyInputs : FcCreateOn(auth, body, Arriving)
    /\ UNCHANGED <<pending, variant, env, now, uploads, blobs, up, merged, issued, authRes>>

\* DELETE /news/:id   (id = NoId: the path ends in "/")
FcDelete ==
    /\ variant = "filecache"
    /\ \E auth \in AuthInputs(now), id \in 0..MaxItems :
          IF ~VerifyJWT(auth, now)
          THEN /\ last' = Reply("delete", auth, 401)
               /\ UNCHANGED <<cache, file, live, rt>>
          ELSE IF id = NoId
          THEN /\ last' = Reply("delete", auth, 400) @@ [id |-> id]
               /\ UNCHANGED <<cache, file, live, rt>>
          ELSE /\ cache' = IF cache.isArray
                           THEN ArrayCache(Without(cache.items, id))
                           ELSE cache
               /\ \E readOk \in BOOLEAN, writeOk \in BOOLEAN :
                     /\ file' = WriteNewsToFile(
                                   file, Without(ReadNewsFromFile(file, readOk), id),
                                   writeOk)
                     /\ last' = Reply("delete", auth, 200) @@
                                 [id |-> id, existed |-> Exists(id), read |-> readOk,
                                  wrote |-> writeOk, res |-> [ok |-> TRUE]]
               /\ live' = {n \in live : n.id # id}
               /\ rt' = IF rt.on /\ ~rt.done /\ rt.id = id
                        THEN [rt EXCEPT !.done = TRUE]
                        ELSE NoRoundTrip
    /\ UNCHANGED <<pending, variant, env, now, nextId, uploads, blobs, up, merged, issued, authRes>>

\* the process is recycled: module state is lost, data.json stays
Restart ==
    /\ variant = "filecache"
    /\ cache' = NullCache
    /\ live' = {}
    /\ rt' = NoRoundTrip
    /\ last' = NoRequest
    /\ UNCHANGED <<pending, variant, env, now, nextId, file, uploads, blobs, up, merged, issued,
                   authRes>>

\* a day passes
Tick ==
    /\ now < MaxNow
    /\ now' = now + 1
    /\ UNCHANGED <<pending, variant, env, nextId, cache, file, uploads, blobs, up, last, live, rt,
                   merged, issued, authRes>>

(***************************************************************************)
(* "express": the app of src/unnamed/part_000.  db.posts is the variable   *)
(* file; a failing readDB or writeDB throws and Express answers 500.       *)
(* Sizes are in MB.                                                        *)
(***************************************************************************)
AllowedMimes == {"image/jpeg", "image/png", "image/webp", "image/gif"}

\* Mutant: every type passes the filter
FileFilterAll(mime) == TRUE

\* fileFilter: ok
FileFilter(mime) == mime \in AllowedMimes

\* limits: { fileSize: 6 * 1024 * 1024 }
FileSizeLimit == 6

NoFile == [present |-> FALSE]
FilePart(mime, size) == [present |-> TRUE, mime |-> mime, size |-> size]
FileInputs ==
    {NoFile, FilePart("image/png", 0), FilePart("image/png", 1),
     FilePart("image/png", 7), FilePart("text/plain", 1)}

LocalUrl(name) == <<"/uploads/", name>>
BlobUrl(key) == <<"https://blob/", key>>

\* imageUrl.startsWith("/uploads/")
IsLocalUrl(u) == u # <<>> /\ u[1] = "/uploads/"

\* Mutant: the file of any image URL is removed, a blob-store URL included
UnlinkedAny(found) ==
    IF found # <<>> /\ found[1].imageUrl # <<>> THEN {found[1].imageUrl[2]} ELSE {}

\* if (post?.imageUrl?.startsWith("/uploads/")) fs.unlink(path.join(UPLOADS_DIR,
\* path.basename(post.imageUrl)), () => {}): the names unlink is called with
Unlinked(found) ==
    IF found # <<>> /\ IsLocalUrl(found[1].imageUrl) THEN {found[1].imageUrl[2]} ELSE {}

\* GET /api/posts
XList ==
    /\ variant = "express"
    /\ \E readOk \in BOOLEAN :
          last' = IF readOk
                  THEN [op |-> "list", auth |-> NoAuthHeader, status |-> 200,
                        read |-> TRUE, news |-> Sort(file)]
                  ELSE Reply("list", NoAuthHeader, 500) @@ [read |-> FALSE]
    /\ UNCHANGED <<pending, variant, env, now, nextId, cache, file, uploads, blobs, up, live, rt,
                   merged, issued, authRes>>

\* POST /api/posts: authRequired, upload.single("image"), then the route, for
\* request r with the given header, title field and file part
XCreateOn(auth, title, part, r) ==
          LET stored == part.present
              name == nextId + 1
              idBase == IF stored THEN nextId + 1 ELSE nextId
              post == MkItem(idBase + 1, Str(title),
                             IF stored THEN LocalUrl(name) ELSE <<>>, now)
              req == [body |-> title, part |-> part]
          IN  IF ~AuthRequired(auth, now)
              THEN /\ last' = Reply("create", auth, 401)
                   /\ UNCHANGED <<nextId, file, uploads, live, rt>>
              ELSE IF part.present /\ (~FileFilter(part.mime) \/ part.size > FileSizeLimit)
              THEN /\ last' = Reply("create", auth, 500) @@ req
                   /\ UNCHANGED <<nextId, file, uploads, live, rt>>
              ELSE IF Falsy(title)
              THEN /\ idBase <= MaxItems
                   /\ last' = Reply("create", auth, 400) @@ req
                   /\ nextId' = idBase
                   /\ uploads' = IF stored THEN uploads \cup {name} ELSE uploads
                   /\ UNCHANGED <<file, live, rt>>
              ELSE \/ /\ idBase + 1 <= MaxItems
                      /\ nextId' = idBase + 1
                      /\ uploads' = IF stored THEN uploads \cup {name} ELSE uploads
                      /\ file' = <<post>> \o StoreSeen(r)
                      /\ last' = Reply("create", auth, 201) @@ req @@
                                  [read |-> TRUE, wrote |-> TRUE, fileAt |-> r.fileAt,
                                   res |-> [post |-> post]]
                      /\ live' = live \cup {post}
                      /\ rt' = [on |-> TRUE, done |-> FALSE, id |-> post.id,
                                before |-> ListView, cacheBefore |-> <<>>,
                                fileBefore |-> file]
                   \/ \E readOk \in BOOLEAN, writeOk \in BOOLEAN :
                      /\ ~readOk \/ ~writeOk
                      /\ idBase <= MaxItems
                      /\ last' = Reply("create", auth, 500) @@ req @@
                                  [read |-> readOk, wrote |-> FALSE]
                      /\ nextId' = idBase
                      /\ uploads' = IF stored THEN uploads \cup {name} ELSE uploads
                      /\ UNCHANGED <<file, live, rt>>

\* POST /api/posts
XCreate ==
    /\ variant = "express"
    /\ \E auth \in AuthInputs(now), title \in TextInputs, part \in FileInputs :
          XCreateOn(auth, title, part, Arriving)
    /\ UNCHANGED <<pending, variant, env, now, cache, blobs, up, merged, issued, authRes>>

\* DELETE /api/posts/:id
XDelete ==
    /\ variant = "express"
    /\ \E auth \in AuthInputs(now), id \in 1..MaxItems :
          LET before == Len(file)
              found == SelectSeq(file, LAMBDA q : q.id = id)
              posts == Without(file, id)
              req == [id |-> id, existed |-> Exists(id)]
              fp == Unlinked(found)
          IN  IF ~AuthRequired(auth, now)
              THEN /\ last' = Reply("delete", auth, 401)
                   /\ UNCHANGED <<file, uploads, live, rt>>
              ELSE \/ \E readOk \in BOOLEAN, writeOk \in BOOLEAN :
                      /\ ~readOk \/ ~writeOk
                      /\ last' = Reply("delete", auth, 500) @@ req @@
                                  [read |-> readOk, wrote |-> FALSE]
                      /\ UNCHANGED <<file, uploads, live, rt>>
                   \/ /\ file' = posts
                      /\ \E unlinkOk \in BOOLEAN :
                            uploads' = IF unlinkOk THEN uploads \ fp ELSE uploads
                      /\ last' = Reply("delete", auth, 200) @@ req @@
                                  [read |-> TRUE, wrote |-> TRUE, unlink |-> fp,
                                   res |-> [deleted |-> before - Len(posts)]]
                      /\ live' = {n \in live : n.id # id}
                      /\ rt' = IF rt.on /\ ~rt.done /\ rt.id = id
                               THEN [rt EXCEPT !.done = TRUE]
                               ELSE NoRoundTrip
    /\ UNCHANGED <<pending, variant, env, now, nextId, cache, blobs, up, merged, issued, authRes>>

(***************************************************************************)
(* "blob": POST /upload of src/api/index.js (the same handler is in        *)
(* src/unnamed/part_001), one step per busboy / stream / promise event.    *)
(*   up.files  - one record per "file" event: declared type, chunks        *)
(*               pushed so far, and the state of its promise               *)
(*               ("streaming", "putting", "resolved", "rejected")          *)
(*   uploadPromise is the promise of the last record of up.files           *)
(*   up.sent   - the status of every json(res, ...) call of the request    *)
(***************************************************************************)
UploadMimes == {"image/png", "text/plain"}

\* MB a data step adds to chunks: busboy is created without limits, so a
\* part may go on past any size
ChunkSizes == {1, FileSizeLimit + 1}

NewUpload(auth, pc, sent) ==
    [pc |-> pc, auth |-> auth, files |-> <<>>, finished |-> FALSE,
     awaiting |-> FALSE, errored |-> FALSE, sent |-> sent, puts |-> 0]

NoUpload == NewUpload(NoAuthHeader, "idle", <<>>)

Streaming(u) == u.files # <<>> /\ u.files[Len(u.files)].st = "streaming"

\* no event of the request is outstanding
Quiescent(u) ==
    \/ u.pc = "idle"
    \/ /\ u.pc = "closed"
       /\ ~u.awaiting
       /\ \A k \in 1..Len(u.files) : u.files[k].st \in {"resolved", "rejected"}

\* Mutant: the parser goes on emitting after its error or finish event
EmittingAfterEnd(u) == u.pc \in {"parsing", "closed"}

\* bb is a Writable stream: it emits "error" or "finish" once, as long as it
\* has emitted neither
Emitting(u) == u.pc = "parsing"

UpVars == <<pending, variant, env, now, nextId, cache, file, uploads, last, live, rt, merged,
            issued, authRes>>

\* POST /upload arrives: verifyJWT, Busboy({ headers }), req.pipe(bb)
UpStart ==
    /\ variant = "blob"
    /\ Quiescent(up)
    /\ Len(blobs) < MaxBlobs
    /\ \E auth \in AuthInputs(now) :
          up' = IF VerifyJWT(auth, now)
                THEN NewUpload(auth, "parsing", <<>>)
                ELSE NewUpload(auth, "closed", <<401>>)
    /\ UNCHANGED blobs
    /\ UNCHANGED UpVars

\* bb.on("file"): a new chunks array and a new uploadPromise
UpFile ==
    /\ variant = "blob"
    /\ up.pc = "parsing"
    /\ ~Streaming(up)
    /\ Len(up.files) < MaxFiles
    /\ \E mime \in UploadMimes :
          up' = [up EXCEPT !.files =
                    Append(@, [mime |-> mime, size |-> 0, chunks |-> 0,
                               st |-> "streaming"])]
    /\ UNCHANGED blobs
    /\ UNCHANGED UpVars

\* file.on("data"): chunks.push(d), for the data events of the next d MB
UpData ==
    /\ variant = "blob"
    /\ up.pc = "parsing"
    /\ Streaming(up)
    /\ up.files[Len(up.files)].chunks < MaxChunks
    /\ \E d \in ChunkSizes :
          up' = [up EXCEPT !.files[Len(up.files)].size = @ + d,
                           !.files[Len(up.files)].chunks = @ + 1]
    /\ UNCHANGED blobs
    /\ UNCHANGED UpVars

\* file.on("end"): reject on an empty buffer, else call put(key, buffer, ...)
UpFileEnd ==
    /\ variant = "blob"
    /\ up.pc = "parsing"
    /\ Streaming(up)
    /\ LET k == Len(up.files)
       IN  up' = IF up.files[k].size = 0
                 THEN [up EXCEPT !.files[k].st = "rejected"]
                 ELSE [up EXCEPT !.files[k].st = "putting", !.puts = @ + 1]
    /\ UNCHANGED blobs
    /\ UNCHANGED UpVars

\* the put call settles: the object is stored and the promise resolves, or
\* the call throws and the promise is rejected
UpPutSettle ==
    /\ variant = "blob"
    /\ \E k \in 1..Len(up.files) :
          /\ up.files[k].st = "putting"
          /\ \/ /\ up' = [up EXCEPT !.files[k].st = "resolved"]
                /\ blobs' = Append(blobs, [contentType |-> up.files[k].mime])
             \/ /\ up' = [up EXCEPT !.files[k].st = "rejected"]
                /\ UNCHANGED blobs
    /\ UNCHANGED UpVars

\* bb.on("error"): badRequest(res, "Upload parse error"); the file stream
\* being read is destroyed (file.on("error", reject))
UpBbError ==
    /\ variant = "blob"
    /\ Emitting(up)
    /\ up' = [up EXCEPT !.pc = "closed",
                        !.errored = TRUE,
                        !.sent = Append(@, 400),
                        !.files = [k \in 1..Len(up.files) |->
                                      IF up.files[k].st = "streaming"
                                      THEN [up.files[k] EXCEPT !.st = "rejected"]
                                      ELSE up.files[k]]]
    /\ UNCHANGED blobs
    /\ UNCHANGED UpVars

\* bb.on("finish"): 400 without uploadPromise, else await uploadPromise
UpFinish ==
    /\ variant = "blob"
    /\ Emitting(up)
    /\ ~Streaming(up)
    /\ up' = IF up.files = <<>>
             THEN [up EXCEPT !.pc = "closed", !.finished = TRUE,
                             !.sent = Append(@, 400)]
             ELSE [up EXCEPT !.pc = "closed", !.finished = TRUE, !.awaiting = TRUE]
    /\ UNCHANGED blobs
    /\ UNCHANGED UpVars

\* the awaited uploadPromise has settled: 200 with blob.url, or the catch: 500
UpRespond ==
    /\ variant = "blob"
    /\ up.pc = "closed"
    /\ up.awaiting
    /\ LET st == up.files[Len(up.files)].st
       IN  /\ st \in {"resolved", "rejected"}
           /\ up' = [up EXCEPT !.awaiting = FALSE,
                               !.sent = Append(@, IF st = "resolved" THEN 200 ELSE 500)]
    /\ UNCHANGED blobs
    /\ UNCHANGED UpVars

(***************************************************************************)
(* "firestore": the item routes of src/api/index.js.  The variable file    *)
(* holds the documents of the collection "news", kept in descending order  *)
(* of document id, the order the query falls back on between documents of *)
(* equal createdAt.  Each route calls getFirestore() and then one          *)
(* database call; either may throw.                                        *)
(***************************************************************************)
\* .limit(200)
ListLimit == 200

Take(s, n) == SubSeq(s, 1, IF Len(s) < n THEN Len(s) ELSE n)

\* db.collection("news").orderBy("createdAt", "desc").limit(200).get()
DbQuery(docs) == Take(Sort(docs), ListLimit)

RECURSIVE InsertDoc(_, _)
\* the collection with one more document
InsertDoc(doc, docs) ==
    IF docs = <<>> THEN <<doc>>
    ELSE IF Head(docs).id > doc.id
         THEN <<Head(docs)>> \o InsertDoc(doc, Tail(docs))
         ELSE <<doc>> \o docs

\* the calls of a route that can throw
DbCalls == {"getFirestore", "call"}

\* Mutant: the catch block answers as if the call had gone through
DbFailureSwallowed(op, auth, call) == Reply(op, auth, 200) @@ [failed |-> call]

\* catch (e): json(res, 500, { ok: false, error })
DbFailure(op, auth, call) == Reply(op, auth, 500) @@ [failed |-> call]

\* admin.firestore.FieldValue.serverTimestamp(): the reading of the database
\* server's clock when the write commits, whatever the clock of the function
\* says when the await returns
ServerTimestamp == 0..MaxNow

\* GET /news
DbList ==
    /\ variant = "firestore"
    /\ \/ last' = [op |-> "list", auth |-> NoAuthHeader, status |-> 200,
                   news |-> DbQuery(file)]
       \/ \E call \in DbCalls : last' = DbFailure("list", NoAuthHeader, call)
    /\ UNCHANGED <<pending, variant, env, now, nextId, cache, file, uploads, blobs, up, live, rt,
                   merged, issued, authRes>>

\* POST /news
DbCreate ==
    /\ variant = "firestore"
    /\ \E auth \in AuthInputs(now), body \in BodyInputs :
          LET text == Trim(Str(body))
          IN  IF ~VerifyJWT(auth, now)
              THEN /\ last' = Reply("create", auth, 401)
                   /\ UNCHANGED file
              ELSE IF body = BadJson \/ text = <<>>
              THEN /\ last' = Reply("create", auth, 400) @@ [body |-> body]
                   /\ UNCHANGED file
              ELSE \/ \E id \in (1..MaxItems) \ {d.id : d \in Range(file)},
                           stamp \in ServerTimestamp :
                         LET doc == MkItem(id, text, <<>>, stamp)
                             item == MkItem(id, text, <<>>, now)
                         IN  /\ file' = InsertDoc(doc, file)
                             /\ last' = Reply("create", auth, 201) @@
                                         [body |-> body,
                                          res |-> [ok |-> TRUE, item |-> item]]
                   \/ \E call \in DbCalls :
                         /\ last' = DbFailure("create", auth, call) @@ [body |-> body]
                         /\ UNCHANGED file
    /\ UNCHANGED <<pending, variant, env, now, nextId, cache, uploads, blobs, up, live, rt, merged,
                   issued, authRes>>

\* DELETE /news/:id
DbDelete ==
    /\ variant = "firestore"
    /\ \E auth \in AuthInputs(now), id \in 0..MaxItems :
          IF ~VerifyJWT(auth, now)
          THEN /\ last' = Reply("delete", auth, 401)
               /\ UNCHANGED file
          ELSE IF id = NoId
          THEN /\ last' = Reply("delete", auth, 400) @@ [id |-> id]
               /\ UNCHANGED file
          ELSE \/ /\ file' = Without(file, id)
                  /\ last' = Reply("delete", auth, 200) @@
                              [id |-> id, existed |-> \E d \in Range(file) : d.id = id,
                               res |-> [ok |-> TRUE]]
               \/ \E call \in DbCalls :
                     /\ last' = DbFailure("delete", auth, call) @@ [id |-> id]
                     /\ UNCHANGED file
    /\ UNCHANGED <<pending, variant, env, now, nextId, cache, uploads, blobs, up, live, rt, merged,
                   issued, authRes>>

(***************************************************************************)
(* SpecMerge: getAllNews() applied to drawn cache and file contents.       *)
(* The cache holds what create put there: items with pairwise distinct,    *)
(* non-empty ids.  data.json is a deployed file: any list of items, with   *)
(* repeated or missing ids.  createdAt is always a valid timestamp.        *)
(***************************************************************************)
MergeIds == 1..3
MergeTexts == {<<"a">>, <<"b">>}
MergeTimes == 0..1

MergeItems(ids) ==
    {MkItem(i, t, <<>>, c) : i \in ids, t \in MergeTexts, c \in MergeTimes}

DistinctIds(s) == \A i, j \in 1..Len(s) : i # j => s[i].id # s[j].id

DrawnCaches ==
    {NullCache} \cup
    {ArrayCache(s) : s \in {q \in SeqsUpTo(MergeItems(MergeIds), MaxCacheLen) : DistinctIds(q)}}

DrawnFiles == SeqsUpTo(MergeItems(MergeIds \cup {NoId}), MaxFileLen)


InitMerge ==
    /\ variant = "filecache"
    /\ env = EnvSecret
    /\ now = 0
    /\ nextId = 0
    /\ cache \in DrawnCaches
    /\ file \in DrawnFiles
    /\ uploads = {}
    /\ blobs = <<>>
    /\ up = NoUpload
    /\ last = NoRequest
    /\ live = {}
    /\ rt = NoRoundTrip
    /\ merged = NoMerge
    /\ issued = {}
    /\ authRes = NoAuth
    /\ pending = {}

\* const news = getAllNews(); with the file read succeeding or throwing
MergeCall ==
    /\ \E readOk \in BOOLEAN :
          merged' = [called |-> TRUE, readOk |-> readOk, news |-> GetAllNews(cache, file, readOk)]
    /\ UNCHANGED <<pending, variant, env, now, nextId, cache, file, uploads, blobs, up, last,
                   live, rt, issued, authRes>>

NextMerge == MergeCall

SpecMerge == InitMerge /\ [][NextMerge]_vars

Ids(s) == {s[i].id : i \in 1..Len(s)}

CountId(s, id) == Cardinality({k \in 1..Len(s) : s[k].id = id})

\* an id the cache and the file both hold, with different field values
Diverged(c, f) ==
    {n \in Range(CacheNews(c)) : \E m \in Range(f) : m.id = n.id /\ m # n}

\* C1: whenever the cache and the file hold the same id with different field
\* values, getAllNews() returns exactly one item with that id, and it is the
\* cache's copy, never the file's.
C1_PrecedenceLaw ==
    merged.called =>
        \A n \in Diverged(cache, file) :
            /\ CountId(merged.news, n.id) = 1
            /\ n \in Range(merged.news)

C1_Witness ==
    /\ merged.called
    /\ merged.readOk
    /\ Diverged(cache, file) # {}

\* position of the item with this id in a sequence with distinct ids
IndexOf(s, id) == CHOOSE k \in 1..Len(s) : s[k].id = id

MergeStep(c, f, readOk) == Dedup(CacheNews(c) \o ReadNewsFromFile(f, readOk))

\* C3: the list getAllNews() returns is ordered by createdAt descending, and
\* items with equal createdAt keep the order the merge step gave them (cache
\* before file, each in its own order).
C3_SortedStable ==
    merged.called =>
        LET out == merged.news
            m == MergeStep(cache, file, merged.readOk)
        IN  /\ \A k \in 1..(Len(out) - 1) : out[k].createdAt >= out[k + 1].createdAt
            /\ \A k, l \in 1..Len(out) :
                  (k < l /\ out[k].createdAt = out[l].createdAt)
                      => IndexOf(m, out[k].id) < IndexOf(m, out[l].id)
            /\ Range(out) = Range(m)
            /\ Len(out) = Len(m)

\* three items come back, the merge step's order was not yet sorted, and a tie
\* between a cache item and a file item had to be kept
C3_Witness ==
    /\ merged.called
    /\ merged.readOk
    /\ Len(merged.news) = 3
    /\ merged.news # MergeStep(cache, file, TRUE)
    /\ \E k \in 1..2 :
          /\ merged.news[k].createdAt = merged.news[k + 1].createdAt
          /\ merged.news[k] \in Range(CacheNews(cache))
          /\ merged.news[k + 1] \notin Range(CacheNews(cache))

(***************************************************************************)
(* Spec: one deployment serving requests                                   *)
(***************************************************************************)
Variants == {"express", "filecache", "firestore", "blob"}

Init ==
    /\ variant \in Variants
    /\ env = EnvSecret
    /\ now = 0
    /\ nextId = 0
    /\ cache = NullCache
    /\ file = <<>>
    /\ uploads = {}
    /\ blobs = <<>>
    /\ up = NoUpload
    /\ last = NoRequest
    /\ live = {}
    /\ rt = NoRoundTrip
    /\ merged = NoMerge
    /\ issued = {}
    /\ authRes = NoAuth
    /\ pending = {}

Next ==
    \/ Health
    \/ Tick
    \/ FcList
    \/ FcCreate
    \/ FcDelete
    \/ Restart
    \/ XList
    \/ XCreate
    \/ XDelete
    \/ DbList
    \/ DbCreate
    \/ DbDelete
    \/ UpStart
    \/ UpFile
    \/ UpData
    \/ UpFileEnd
    \/ UpPutSettle
    \/ UpBbError
    \/ UpFinish
    \/ UpRespond

Spec == Init /\ [][Next]_vars

(***************************************************************************)
(* Properties of Spec                                                      *)
(***************************************************************************)
\* what list() can answer in this state (the file read succeeding or not)
ListViews ==
    IF variant = "express"
    THEN {Sort(file)}
    ELSE {GetAllNews(cache, file, readOk) : readOk \in BOOLEAN}

\* C2: after any creates and deletes, each durable write succeeding or not,
\* list() holds every item that was created with an id of its own and not
\* deleted, and holds no id twice.
C2_CreatedListed ==
    variant \in {"express", "filecache"} =>
        \A view \in ListViews :
            /\ \A it \in live :
                  (\A o \in live : o.id = it.id => o = it) => it \in Range(view)
            /\ \A k, l \in 1..Len(view) : k # l => view[k].id # view[l].id

\* two created items are listed, one of them held by the cache alone
C2_Witness ==
    /\ variant = "filecache"
    /\ Cardinality(live) = 2
    /\ Len(file) = 1
    /\ last.op = "create"
    /\ last.status = 201

\* C4: create, list, delete of the created id, list: the last list equals
\* the list before the create, and cache and file hold what they held then.
C4_RoundTrip ==
    (rt.on /\ rt.done) =>
        /\ ListView = rt.before
        /\ CacheNews(cache) = rt.cacheBefore
        /\ file = rt.fileBefore

\* C5: the response of a delete carries a deleted count, 1 when an item with
\* that id existed before the call and 0 when none did.
C5_DeletedCount ==
    (last.op = "delete" /\ last.status = 200) =>
        /\ "deleted" \in DOMAIN last.res
        /\ last.res.deleted = IF last.existed THEN 1 ELSE 0

\* no bearer token, or one that jwt.verify refuses at time t
Rejected(auth, t) ==
    \/ auth.kind # "bearer"
    \/ auth.tok.key # JWT_SECRET
    \/ ~auth.tok.intact
    \/ t >= auth.tok.exp

\* the step handles a create or delete request that is not authorized
UnauthorizedItemStep ==
    /\ now' = now
    /\ last'.op \in {"create", "delete"}
    /\ Rejected(last'.auth, now)

\* the step is the arrival of an upload request that is not authorized
UnauthorizedUploadStep ==
    /\ up' # up
    /\ up'.files = <<>>
    /\ ~up'.finished
    /\ ~up'.errored
    /\ Rejected(up'.auth, now)

\* C7: a create, delete or upload request without a bearer token, or with a
\* token that verify rejects, is answered 401 and changes neither the cache,
\* the file, the upload directory nor the blob store; list and health are
\* answered without a token.
C7_AuthGuard ==
    /\ [][/\ UnauthorizedItemStep =>
                 /\ last'.status = 401
                 /\ UNCHANGED <<cache, file, uploads, blobs>>
          /\ UnauthorizedUploadStep =>
                 /\ up'.sent = <<401>>
                 /\ up'.pc = "closed"
                 /\ UNCHANGED <<cache, file, uploads, blobs>>
          /\ (now' = now /\ last'.op \in {"list", "health"}) =>
                 /\ last'.auth = NoAuthHeader
                 /\ last'.status # 401]_vars
    /\ [](up.sent # <<>> /\ up.sent[1] = 401 => up.files = <<>> /\ up.puts = 0)

\* a create carrying a token of another secret was turned away while the
\* store held an item
C7_Witness ==
    /\ last.op = "create"
    /\ last.status = 401
    /\ last.auth.kind = "bearer"
    /\ file # <<>>

\* C8: an upload whose declared type is not on the allow-list fails; put is
\* never called for it and nothing of it is stored.
C8_MimeAllowList ==
    /\ \A k \in 1..Len(up.files) :
          up.files[k].mime \notin AllowedMimes =>
              up.files[k].st \in {"streaming", "rejected"}
    /\ \A k \in 1..Len(blobs) : blobs[k].contentType \in AllowedMimes
    /\ (last.op = "create" /\ "part" \in DOMAIN last /\ last.part.present
            /\ last.part.mime \notin AllowedMimes) => last.status >= 400

\* C9: an upload whose file part has zero bytes fails with a 400 response,
\* and put is never called for it.
C9_EmptyUpload ==
    /\ \A k \in 1..Len(up.files) :
          up.files[k].size = 0 => up.files[k].st \in {"streaming", "rejected"}
    /\ (up.finished /\ ~up.awaiting /\ up.files # <<>>
            /\ up.files[Len(up.files)].size = 0) => up.sent = <<400>>

\* the required text is missing, or nothing but white space
Blank(x) == x = Undefined \/ \A i \in 1..Len(x) : x[i] = " "

\* C10: an authorized create whose text (title) is missing or empty after
\* trimming is answered 400, and no item is added to cache or file.
C10_Validation ==
    [][(/\ now' = now
        /\ last'.op = "create"
        /\ ~Rejected(last'.auth, now)
        /\ "body" \in DOMAIN last'
        /\ Blank(last'.body)
        /\ "part" \in DOMAIN last' => ~last'.part.present)
          => /\ last'.status = 400
             /\ UNCHANGED <<cache, file>>]_vars

\* the item a 201 response of create carries
Created ==
    IF variant = "express" THEN last.res.post ELSE last.res.item

\* C11: after a successful create the next list() has the created item as
\* its first element, whatever earlier creates and deletes left in the
\* store, two creates of the same timestamp included.
C11_CreatedFirst ==
    (variant \in {"express", "filecache"} /\ last.op = "create" /\ last.status = 201) =>
        \A view \in ListViews : view # <<>> /\ view[1] = Created

\* the created item is listed ahead of an older item of the same timestamp
C11_Witness ==
    /\ variant = "filecache"
    /\ last.op = "create"
    /\ last.status = 201
    /\ Len(ListView) = 2
    /\ ListView[1] = Created
    /\ ListView[2].createdAt = ListView[1].createdAt

\* C12: after a mutation whose durable write failed, list() of the same
\* process shows the new state: the created item is there, the deleted id
\* is not, also when only data.json held the deleted id.
C12_CacheAuthoritative ==
    variant = "filecache" =>
        /\ (last.op = "create" /\ last.status = 201) =>
               \A view \in ListViews : last.res.item \in Range(view)
        /\ (last.op = "delete" /\ last.status = 200) =>
               \A view \in ListViews : \A n \in Range(view) : n.id # last.id

(***************************************************************************)
(* SpecAuth: login, the clock, and token verification                      *)
(***************************************************************************)
CredentialInputs == {Undefined, <<"o", "k">>, <<"n", "o">>}

\* the administrator's name and password as request values
GoodCredential == <<"o", "k">>

\* POST /login (filecache), POST /api/login (express, ADMIN_PASS_HASH set)
Login ==
    /\ \E username \in CredentialInputs, password \in CredentialInputs :
          IF variant = "express" /\ (Falsy(username) \/ Falsy(password))
          THEN /\ last' = Reply("login", NoAuthHeader, 400)
               /\ UNCHANGED issued
          ELSE IF username # GoodCredential \/ password # GoodCredential
          THEN /\ last' = Reply("login", NoAuthHeader, 401)
               /\ UNCHANGED issued
          ELSE /\ Cardinality(issued) < MaxLogins
               /\ last' = Reply("login", NoAuthHeader, 200) @@
                           [res |-> [token |-> SignToken(ADMIN_USER, now)]]
               /\ issued' = issued \cup
                               {[tok |-> SignToken(ADMIN_USER, now), at |-> now,
                                 who |-> ADMIN_USER]}
    /\ UNCHANGED <<pending, variant, env, now, nextId, cache, file, uploads, blobs, up, live, rt,
                   merged, authRes>>

\* what a client can present: nothing, a token it was issued, that token
\* with payload or signature altered, a token signed with another secret
Presentable ==
    {NoAuthHeader, Bearer(ForgedToken(now)), Bearer(DefaultSigned(now))}
        \cup {Bearer(i.tok) : i \in issued}
        \cup {Bearer(Tampered(i.tok)) : i \in issued}

\* a protected route runs its guard: authRequired (express), verifyJWT (filecache)
Verify ==
    /\ \E auth \in Presentable :
          LET ok == IF variant = "express"
                    THEN AuthRequired(auth, now)
                    ELSE VerifyJWT(auth, now)
          IN  authRes' = [called |-> TRUE, auth |-> auth, at |-> now, ok |-> ok,
                          status |-> IF ok THEN 200 ELSE 401,
                          user |-> IF ok THEN auth.tok.sub ELSE Undefined]
    /\ UNCHANGED <<pending, variant, env, now, nextId, cache, file, uploads, blobs, up, last, live,
                   rt, merged, issued>>

AuthTick ==
    /\ now < MaxAuthNow
    /\ now' = now + 1
    /\ UNCHANGED <<pending, variant, env, nextId, cache, file, uploads, blobs, up, last, live, rt,
                   merged, issued, authRes>>

InitAuth ==
    /\ variant \in {"express", "filecache"}
    /\ env \in {"", EnvSecret}
    /\ now = 0
    /\ nextId = 0
    /\ cache = NullCache
    /\ file = <<>>
    /\ uploads = {}
    /\ blobs = <<>>
    /\ up = NoUpload
    /\ last = NoRequest
    /\ live = {}
    /\ rt = NoRoundTrip
    /\ merged = NoMerge
    /\ issued = {}
    /\ authRes = NoAuth
    /\ pending = {}

NextAuth ==
    \/ Login
    \/ Verify
    \/ AuthTick

SpecAuth == InitAuth /\ [][NextAuth]_vars

\* C6: a token login issued at time t is accepted at every time before
\* t + 7 days and yields the identity it was issued for; at or after t + 7
\* days it is rejected with 401, and so is a token whose signature was
\* altered or that another secret signed.  Nothing but the clock ends the
\* acceptance of an issued token.
C6_TokenLifetime ==
    (authRes.called /\ authRes.auth.kind = "bearer") =>
        LET tok == authRes.auth.tok
        IN  /\ \A i \in issued :
                  tok = i.tok =>
                      /\ authRes.ok <=> authRes.at < i.at + 7
                      /\ authRes.ok => authRes.user = i.who
            /\ (tok.key # JWT_SECRET \/ ~tok.intact) => ~authRes.ok
            /\ authRes.ok <=> authRes.status # 401

\* an issued token was presented, and refused, on the day it expired
C6_Witness ==
    /\ authRes.called
    /\ authRes.auth.kind = "bearer"
    /\ \E i \in issued :
          /\ authRes.auth.tok = i.tok
          /\ ~authRes.ok
          /\ authRes.at = i.at + 7

\* C19: with no signing secret configured, login hands out no token (it
\* reports the missing configuration), and verify accepts no token that
\* the built-in default secret signed.
C19_NoDefaultSecret ==
    env = "" =>
        /\ issued = {}
        /\ last.op = "login" => last.status # 200
        /\ (authRes.called /\ authRes.auth.kind = "bearer"
                /\ authRes.auth.tok.key = DefaultSecret) => ~authRes.ok

RECURSIVE TotalBytes(_)
\* MB held in the chunks arrays of one upload request
TotalBytes(fs) == IF fs = <<>> THEN 0 ELSE Head(fs).size + TotalBytes(Tail(fs))

\* C17: an upload request that ends in a multipart parse error has made
\* no put call, before the error or after it, also when a whole file part
\* came in ahead of the broken framing.
C17_ParseErrorNoPut ==
    up.errored =>
        /\ up.puts = 0
        /\ \A k \in 1..Len(up.files) : up.files[k].st \in {"streaming", "rejected"}

\* C18: the bytes one upload request holds in memory never exceed the cap
\* of 6 MB, and a file above the cap fails: it is neither handed to put
\* nor stored.
C18_SizeCap ==
    /\ TotalBytes(up.files) <= 6
    /\ \A k \in 1..Len(up.files) :
          up.files[k].size > 6 => up.files[k].st \in {"streaming", "rejected"}
    /\ (last.op = "create" /\ "part" \in DOMAIN last /\ last.part.present
            /\ last.part.size > 6) =>
          (last.status >= 400 /\ "res" \notin DOMAIN last)

\* C16: in the database-backed deployment a failing database call
\* (initialisation, query, add, delete) is answered 500, never with a
\* success, and a failed add reports no created item.
C16_UpstreamFailure ==
    (variant = "firestore" /\ "failed" \in DOMAIN last) =>
        /\ last.status = 500
        /\ "res" \notin DOMAIN last
        /\ "news" \notin DOMAIN last

\* an add failed while the collection held a document
C16_Witness ==
    /\ variant = "firestore"
    /\ last.op = "create"
    /\ "failed" \in DOMAIN last
    /\ last.failed = "call"
    /\ file # <<>>

(***************************************************************************)
(* SpecList: the list route of each deployment applied to stores of drawn  *)
(* length, from empty to beyond the limit of the query.                    *)
(***************************************************************************)
\* a store of n items, as n creates on two days leave it
LongStore(n) == [i \in 1..n |-> MkItem(n + 1 - i, <<"a">>, <<>>, i % 2)]

StoreLengths == (0..MaxShortList) \cup (ListLimit..(ListLimit + MaxOver))

InitList ==
    /\ variant \in {"express", "filecache", "firestore"}
    /\ env = EnvSecret
    /\ now = 1
    /\ nextId = 0
    /\ cache = NullCache
    /\ file \in {LongStore(n) : n \in StoreLengths}
    /\ uploads = {}
    /\ blobs = <<>>
    /\ up = NoUpload
    /\ last = NoRequest
    /\ live = {}
    /\ rt = NoRoundTrip
    /\ merged = NoMerge
    /\ issued = {}
    /\ authRes = NoAuth
    /\ pending = {}

NextList ==
    \/ FcList
    \/ XList
    \/ DbList

SpecList == InitList /\ [][NextList]_vars

\* C13: list() never returns more than 200 items, however many the cache
\* and the store hold.
C13_ListCapped ==
    (last.op = "list" /\ last.status = 200) => Len(last.news) <= 200

\* C14: reading the store never raises: with the file absent, unreadable,
\* not JSON or without an item list the read gives an empty list, and
\* list, create and delete answer as they normally do.
C14_ReadNeverRaises ==
    ("read" \in DOMAIN last /\ ~last.read) =>
        /\ last.status \in {200, 201}
        /\ last.op = "list" => last.news = Sort(Dedup(CacheNews(cache)))

\* C15: create puts the item into the cache before it tries the durable
\* write and answers 201 with the item whether the write went through or
\* not; a failed write neither takes the item out of the cache nor makes
\* the response an error.
C15_CacheFirst ==
    (variant = "filecache" /\ last.op = "create" /\ last.status \notin {400, 401}) =>
        /\ last.status = 201
        /\ cache.isArray
        /\ cache.items # <<>>
        /\ cache.items[1] = last.res.item
        /\ ~last.wrote => last.res.item \notin Range(file)

\* a create whose write failed was answered 201, its item ahead of an
\* earlier one in the cache
C15_Witness ==
    /\ variant = "filecache"
    /\ last.op = "create"
    /\ last.status = 201
    /\ ~last.wrote
    /\ Len(cache.items) = 2

(***************************************************************************)
(* SpecUpload: upload requests alone, with the progress the platform       *)
(* gives: the parser gets to the end of the body or to an error (the       *)
(* request stream ends or is cut), a put call returns or throws, and a     *)
(* settled promise resumes the finish callback that awaits it.             *)
(***************************************************************************)
InitUpload ==
    /\ variant = "blob"
    /\ env = EnvSecret
    /\ now \in 0..MaxNow
    /\ nextId = 0
    /\ cache = NullCache
    /\ file = <<>>
    /\ uploads = {}
    /\ blobs = <<>>
    /\ up = NoUpload
    /\ last = NoRequest
    /\ live = {}
    /\ rt = NoRoundTrip
    /\ merged = NoMerge
    /\ issued = {}
    /\ authRes = NoAuth
    /\ pending = {}

NextUpload ==
    \/ UpStart
    \/ UpFile
    \/ UpData
    \/ UpFileEnd
    \/ UpPutSettle
    \/ UpBbError
    \/ UpFinish
    \/ UpRespond

SpecUpload ==
    /\ InitUpload
    /\ [][NextUpload]_vars
    /\ WF_vars(UpFileEnd \/ UpFinish \/ UpBbError)
    /\ WF_vars(UpPutSettle)
    /\ WF_vars(UpRespond)

\* how far a request has come: 0 Awaiting Headers, 1 Streaming File Bytes,
\* 2 Buffered and Forwarding to Blob Store (file.on("end") concatenates the
\* chunks and calls put in one go), 3 the outcome is known (uploadPromise
\* has settled) and the response is still to be written, 4 Completed or
\* Failed (a response is written)
Phase(u) ==
    IF u.sent # <<>> THEN 4
    ELSE IF u.files = <<>> THEN 0
    ELSE LET st == u.files[Len(u.files)].st
         IN  IF st = "streaming" THEN 1
             ELSE IF st = "putting" THEN 2
             ELSE 3

\* the step is the arrival of a request
Arrival == up' # up /\ up'.files = <<>> /\ ~up'.finished /\ ~up'.errored

\* a request being parsed is answered in the end
UploadAnswered == (up.pc = "parsing") ~> (up.sent # <<>>)

\* C20: every authorized upload request goes Awaiting Headers -> Streaming
\* File Bytes -> Buffered -> Forwarding to Blob Store -> Completed or
\* Failed, never back, and in the end is Completed or Failed with a response
\* written, in whatever order the parser delivers file, data, end, error
\* and finish, and whether put returns or throws.
C20_UploadProgress ==
    /\ [][~Arrival => Phase(up') >= Phase(up)]_vars
    /\ [](up.sent # <<>> => up.sent[1] \in {200, 400, 401, 500})
    /\ UploadAnswered

\* the file parts of the request that were handed to put
Forwarded(u) == {k \in 1..Len(u.files) : u.files[k].st \in {"putting", "resolved"}}

\* C21: one file field is honoured per upload request: whatever the number
\* of file parts, at most one put call is made, and the URL of a 200
\* response is that of the one object stored.
C21_OneFile ==
    /\ up.puts <= 1
    /\ Cardinality(Forwarded(up)) <= 1
    /\ (up.sent # <<>> /\ up.sent[1] = 200) => Forwarded(up) = {Len(up.files)}

(***************************************************************************)
(* SpecLocal: DELETE /api/posts/:id of the Express app on drawn contents   *)
(* of data.json and of the upload directory.  The posts have ids of their *)
(* own; their imageUrl is empty, a local upload or an object of the blob   *)
(* store (a data.json carried over from a deployment that used it).        *)
(***************************************************************************)
LocalImages == {<<>>, LocalUrl(1), LocalUrl(2), BlobUrl(1)}

LocalPosts == {MkItem(id, <<"a">>, u, 0) : id \in 1..MaxItems, u \in LocalImages}

DrawnPosts ==
    {s \in SeqsUpTo(LocalPosts, 2) : \A k, l \in 1..Len(s) : k # l => s[k].id # s[l].id}

InitLocal ==
    /\ variant = "express"
    /\ env = EnvSecret
    /\ now = 0
    /\ nextId = MaxItems
    /\ cache = NullCache
    /\ file \in DrawnPosts
    /\ uploads \in SUBSET {1, 2}
    /\ blobs = <<>>
    /\ up = NoUpload
    /\ last = NoRequest
    /\ live = {}
    /\ rt = NoRoundTrip
    /\ merged = NoMerge
    /\ issued = {}
    /\ authRes = NoAuth
    /\ pending = {}

NextLocal ==
    \/ XDelete
    \/ XList

SpecLocal == InitLocal /\ [][NextLocal]_vars

\* the posts of s with the given id
WithId(s, id) == SelectSeq(s, LAMBDA q : q.id = id)

\* C22: a delete of an item whose imageUrl is a local upload tries to remove
\* that one file of the upload directory and no other, and whether the
\* removal works changes neither the response nor the removal of the item;
\* a delete of an item whose imageUrl is empty or a blob-store URL removes
\* no file and calls the blob store not at all.
C22_LocalUnlink ==
    [][(last'.op = "delete" /\ last'.status = 200 /\ last' # last) =>
          LET found == WithId(file, last'.id)
              url == IF found = <<>> THEN <<>> ELSE found[1].imageUrl
              isLocal == url # <<>> /\ url[1] = "/uploads/"
          IN  /\ file' = Without(file, last'.id)
              /\ last'.res.deleted = Len(found)
              /\ blobs' = blobs
              /\ up' = up
              /\ isLocal => last'.unlink = {url[2]} /\ uploads \ uploads' \subseteq {url[2]}
              /\ ~isLocal => last'.unlink = {} /\ uploads' = uploads]_vars

\* the removal of the local file of a deleted post failed: the file is still
\* there, the post is gone and the response counts it
C22_Witness ==
    /\ last.op = "delete"
    /\ last.status = 200
    /\ last.res.deleted = 1
    /\ last.unlink # {}
    /\ last.unlink \subseteq uploads

(***************************************************************************)
(* SpecConc: create and delete requests in flight at the same time in one  *)
(* process.  A create is suspended once, while its body is read (await     *)
(* readBody(req) in the file-cache handler, upload.single("image") in the  *)
(* Express app); what follows runs to the response without yielding.  The  *)
(* delete routes have no such point.                                       *)
(***************************************************************************)
MaxPending == 2

\* a create passes the token check and waits for its body
Accept ==
    /\ variant \in {"filecache", "express"}
    /\ Cardinality(pending) < MaxPending
    /\ \E auth \in {Bearer(SignToken(ADMIN_USER, now))}, text \in {<<"a">>, <<" ">>},
          part \in IF variant = "express" THEN {NoFile, FilePart("image/png", 1)}
                                           ELSE {NoFile} :
          /\ IF variant = "express" THEN AuthRequired(auth, now) ELSE VerifyJWT(auth, now)
          /\ pending' = pending \cup
                {[n |-> CHOOSE k \in 1..MaxPending : \A q \in pending : q.n # k,
                  auth |-> auth, text |-> text, part |-> part, fileAt |-> file]}
    /\ UNCHANGED <<variant, env, now, nextId, cache, file, uploads, blobs, up, last, live, rt,
                   merged, issued, authRes>>

\* the body of a pending POST /news is complete: the rest of the handler runs
FcCreateRun ==
    /\ variant = "filecache"
    /\ \E r \in pending :
          /\ FcCreateOn(r.auth, r.text, r)
          /\ pending' = pending \ {r}
    /\ UNCHANGED <<variant, env, now, uploads, blobs, up, merged, issued, authRes>>

\* multer is done with a pending POST /api/posts: the route runs
XCreateRun ==
    /\ variant = "express"
    /\ \E r \in pending :
          /\ XCreateOn(r.auth, r.text, r.part, r)
          /\ pending' = pending \ {r}
    /\ UNCHANGED <<variant, env, now, cache, blobs, up, merged, issued, authRes>>

InitConc ==
    /\ Init
    /\ variant \in {"filecache", "express"}

NextConc ==
    \/ Accept
    \/ FcCreateRun
    \/ XCreateRun
    \/ FcDelete
    \/ XDelete

SpecConc == InitConc /\ [][NextConc]_vars

\* C23: within one process concurrent creates and deletes lose no update: the
\* route of a create that was waiting for its body puts its item in front of
\* the cache as it is now and, when the file is read and written, in front of
\* the file as it is now, whatever was created or deleted while it waited; a
\* delete takes the items of its own id and no other out of cache and file;
\* and every item created and not deleted is in the cache (file-cache
\* handler) and, when it was written, was added to the file (both handlers).
C23_NoLostUpdate ==
    /\ [](variant = "filecache" => \A it \in live : it \in Range(CacheNews(cache)))
    /\ [][/\ (Cardinality(pending') < Cardinality(pending) /\ last'.status = 201) =>
               LET it == Created'
               IN  IF variant = "express"
                   THEN file' = <<it>> \o file
                   ELSE /\ cache'.isArray
                        /\ cache'.items = <<it>> \o CacheNews(cache)
                        /\ (last'.read /\ last'.wrote) => file' = <<it>> \o file
                        /\ ~last'.wrote => file' = file
           /\ (pending' = pending /\ last'.op = "delete" /\ last'.status = 200) =>
               /\ variant = "filecache" =>
                     /\ CacheNews(cache') = Without(CacheNews(cache), last'.id)
                     /\ (last'.read /\ last'.wrote) => file' = Without(file, last'.id)
                     /\ ~last'.wrote => file' = file
               /\ variant = "express" => file' = Without(file, last'.id)]_vars

\* two creates were in flight together: the one that answered last had arrived
\* before the other wrote the file, and both items are in cache and file
C23_Witness ==
    /\ variant = "filecache"
    /\ pending = {}
    /\ last.op = "create"
    /\ last.status = 201
    /\ last.read
    /\ last.wrote
    /\ Len(file) = 2
    /\ last.fileAt = <<>>
    /\ file[1] = last.res.item
    /\ Cardinality(live) = 2
    /\ live = Range(file)
    /\ live = Range(CacheNews(cache))

\* C24: the item in the 201 response of create is equal, field for field, to
\* the item a following list() returns for the same id.
C24_CreateMatchesList ==
    (last.op = "create" /\ last.status = 201) =>
        \A view \in IF variant = "firestore" THEN {DbQuery(file)} ELSE ListViews :
            \A k \in 1..Len(view) : view[k].id = Created.id => view[k] = Created

\* C25: in the Express app, after any creates and deletes (creates answered
\* 400 for a missing title included), every file of the upload directory is
\* the image of some stored post.
C25_NoOrphanUpload ==
    variant = "express" =>
        \A name \in uploads : \E k \in 1..Len(file) : file[k].imageUrl = LocalUrl(name)

\* C26: whatever the order of the parser's and the file streams' events and
\* whatever the blob store answers, an upload request gets at most one
\* response, and the error callback and the finish callback never both run.
C26_OneResponse ==
    /\ Len(up.sent) <= 1
    /\ ~(up.errored /\ up.finished)

\* a parse error on a request of which one file part was handed to put: the
\* put call has settled and the request was answered 400, once
C26_Witness ==
    /\ up.errored
    /\ up.puts = 1
    /\ Quiescent(up)
    /\ up.sent = <<400>>

====
